---- MODULE Spec2Model ----
(***************************************************************************)
(* Model of the proxy pool manager of clients/cli/src/proxy.rs: the        *)
(* ProxyManager (entry sequence, last_updated, update_interval), the three *)
(* process-wide globals PROXY_MANAGER, PROXY_ENABLED and PROXY_FILE_PATH,  *)
(* each behind its own std::sync::Mutex, the proxy file on disk and the    *)
(* monotonic clock.  Time is counted in whole seconds.                     *)
(***************************************************************************)
EXTENDS Integers, Sequences, FiniteSets, TLC

(***************************************************************************)
(* Program constants.                                                      *)
(***************************************************************************)
\* Duration::from_secs(300): the refresh interval.
UpdateInterval == 300
\* Duration::from_secs(3600): how far new() backdates last_updated.
InitialBackdate == 3600
\* u16::MAX, the largest port parse::<u16>() accepts.
MaxPort == 65535
\* parts.len() != 4
FieldCount == 4

(***************************************************************************)
(* Bounds of the model.                                                    *)
(***************************************************************************)
\* The clock stops advancing once it has reached MaxNow seconds.
MaxNow == 601
\* Number of calls the idempotence scenario records.
MaxCalls == 3

(***************************************************************************)
(* Text.  A line is a sequence of one-character strings.                   *)
(***************************************************************************)
Digits == {"0", "1", "2", "3", "4", "5", "6", "7", "8", "9"}

DigitVal(c) ==
    CASE c = "0" -> 0 [] c = "1" -> 1 [] c = "2" -> 2 [] c = "3" -> 3
      [] c = "4" -> 4 [] c = "5" -> 5 [] c = "6" -> 6 [] c = "7" -> 7
      [] c = "8" -> 8 [] c = "9" -> 9

IsSpace(c) == c \in {" ", "\t"}

RECURSIVE TrimStart(_)
TrimStart(s) ==
    IF s # <<>> /\ IsSpace(Head(s)) THEN TrimStart(Tail(s)) ELSE s

RECURSIVE TrimEnd(_)
TrimEnd(s) ==
    IF s # <<>> /\ IsSpace(s[Len(s)])
    THEN TrimEnd(SubSeq(s, 1, Len(s) - 1))
    ELSE s

\* str::trim
Trim(s) == TrimEnd(TrimStart(s))

\* str::split(':').collect(): always at least one part; n separators give
\* n + 1 parts, empty parts included.
RECURSIVE SplitFrom(_, _, _)
SplitFrom(s, i, cur) ==
    IF i > Len(s) THEN <<cur>>
    ELSE IF s[i] = ":" THEN <<cur>> \o SplitFrom(s, i + 1, <<>>)
    ELSE SplitFrom(s, i + 1, Append(cur, s[i]))

Split(s) == SplitFrom(s, 1, <<>>)

\* The digits of str::parse::<u16>, accumulated left to right; -1 stands
\* for the Err of a non-digit or of a value above u16::MAX.
RECURSIVE ParseDigits(_, _, _)
ParseDigits(s, i, acc) ==
    IF i > Len(s) THEN acc
    ELSE IF s[i] \notin Digits THEN -1
    ELSE LET v == acc * 10 + DigitVal(s[i])
         IN  IF v > MaxPort THEN -1 ELSE ParseDigits(s, i + 1, v)

\* str::parse::<u16>: an optional leading "+", then at least one digit.
ParseU16(s) ==
    LET body == IF s # <<>> /\ Head(s) = "+" THEN Tail(s) ELSE s
    IN  IF body = <<>> THEN -1 ELSE ParseDigits(body, 1, 0)

\* from_string accepting every line of at least four fields.
FromStringWrongCount(proxy_str) ==
    LET parts == Split(Trim(proxy_str))
    IN  IF Len(parts) < FieldCount THEN <<>>
        ELSE IF ParseU16(parts[2]) < 0 THEN <<>>
        ELSE << [host |-> parts[1], port |-> ParseU16(parts[2]),
                 username |-> parts[3], password |-> parts[4]] >>

\* ProxyConfig::from_string: <<>> for Err, <<entry>> for Ok(entry).
FromString(proxy_str) ==
    LET parts == Split(Trim(proxy_str))
    IN  IF Len(parts) # FieldCount THEN <<>>
        ELSE IF ParseU16(parts[2]) < 0 THEN <<>>
        ELSE << [host |-> parts[1], port |-> ParseU16(parts[2]),
                 username |-> parts[3], password |-> parts[4]] >>

\* The loop of load_proxies ending at the first line from_string rejects.
RECURSIVE ParseLinesAbort(_)
ParseLinesAbort(lines) ==
    IF lines = <<>> THEN <<>>
    ELSE LET line == Trim(Head(lines))
         IN  IF line = <<>> \/ Head(line) = "#"
             THEN ParseLinesAbort(Tail(lines))
             ELSE IF FromString(line) = <<>> THEN <<>>
             ELSE FromString(line) \o ParseLinesAbort(Tail(lines))

\* The loop of load_proxies over content.lines(): blank lines and comments
\* are skipped, a line from_string rejects is skipped with a warning.
RECURSIVE ParseLines(_)
ParseLines(lines) ==
    IF lines = <<>> THEN <<>>
    ELSE LET line == Trim(Head(lines))
         IN  IF line = <<>> \/ Head(line) = "#"
             THEN ParseLines(Tail(lines))
             ELSE FromString(line) \o ParseLines(Tail(lines))

(***************************************************************************)
(* The files the environment can put on disk.                              *)
(***************************************************************************)
\* # comment / 1.2.3.4:8080:alice:secret / bad-line-missing-fields /
\* 5.6.7.8:3128:bob:pw
FileScenario ==
    << <<"#", " ", "c", "o", "m", "m", "e", "n", "t">>,
       <<"1", ".", "2", ".", "3", ".", "4", ":", "8", "0", "8", "0", ":",
         "a", "l", "i", "c", "e", ":", "s", "e", "c", "r", "e", "t">>,
       <<"b", "a", "d", "-", "l", "i", "n", "e">>,
       <<"5", ".", "6", ".", "7", ".", "8", ":", "3", "1", "2", "8", ":",
         "b", "o", "b", ":", "p", "w">> >>

\* A readable file without one valid entry: a blank line, an indented
\* comment, a port above u16::MAX, three fields, five fields.
FileInvalid ==
    << <<" ", " ">>,
       <<" ", "#", "x", ":", "1", ":", "u", ":", "p">>,
       <<"h", ":", "6", "5", "5", "3", "6", ":", "u", ":", "p">>,
       <<"h", ":", "8", "0", ":", "u">>,
       <<"h", ":", "8", "0", ":", "u", ":", "p", ":", "q">> >>

\* One entry, surrounded by white space:  9.9.9.9:80:carol:x
FileAlt ==
    << <<" ", "9", ".", "9", ".", "9", ".", "9", ":", "8", "0", ":",
         "c", "a", "r", "o", "l", ":", "x", "\t">> >>

Contents == {FileScenario, FileInvalid, FileAlt}

NoFile == [exists |-> FALSE, readable |-> FALSE, content |-> <<>>]
UnreadableFile == [exists |-> TRUE, readable |-> FALSE, content |-> <<>>]
Regular(c) == [exists |-> TRUE, readable |-> TRUE, content |-> c]

FileStates == {NoFile, UnreadableFile} \cup {Regular(c) : c \in Contents}

\* "proxies.txt".to_string(), the default of PROXY_FILE_PATH.
DefaultPath == "proxies.txt"
AltPath == "alt.txt"
Paths == {DefaultPath, AltPath}


\* The threads of the process that call into the gateway.
Threads == {"t1", "t2"}

(***************************************************************************)
(* State.                                                                  *)
(*   proxies, last_updated   the fields of the ProxyManager singleton      *)
(*   proxy_enabled           the value inside PROXY_ENABLED                *)
(*   proxy_file_path         the value inside PROXY_FILE_PATH              *)
(*   poisoned                the locks whose Mutex is poisoned             *)
(*   holder                  who holds the manager lock and the path lock  *)
(*   pc, loc                 each thread's position and locals             *)
(*   now                     the monotonic clock (Instant::now())          *)
(*   disk                    the file behind each path                     *)
(*   ret                     what the call that returned in the last step  *)
(*                           returned (NoCall when none did)               *)
(*   ever_loaded             history: some load_proxies returned Ok        *)
(*   calls                   history: the recorded ensure_proxies_loaded   *)
(*                           calls of the idempotence scenario             *)
(***************************************************************************)
VARIABLES proxies, last_updated, proxy_enabled, proxy_file_path, poisoned,
          holder, pc, loc, now, disk, ret, ever_loaded, calls, arg, result

vars == <<proxies, last_updated, proxy_enabled, proxy_file_path, poisoned,
          holder, pc, loc, now, disk, ret, ever_loaded, calls, arg, result>>

\* The argument and the returned value of a call of one of the functions
\* that touch no state (ProxyConfig::from_string, OrchestratorError's
\* constructors); result holds at most one value.
pure == <<arg, result>>
program == <<proxies, last_updated, proxy_enabled, proxy_file_path, poisoned,
             holder, pc, loc, now, disk, ret, ever_loaded, calls>>

catalog == <<proxies, last_updated>>
settings == <<proxy_enabled, proxy_file_path>>
threads == <<holder, pc, loc>>
world == <<now, disk>>

\* Results.  The code returns Result<_, String>; an error is named here by
\* the kind of its message:
\*   "NotFound"      "{path} file not found"
\*   "IoFailure"     "Failed to read proxies.txt: {e}"
\*   "EmptyCatalog"  "No valid proxies found in proxies.txt"
\*   "Unavailable"   "No proxies available"
\*   "LockFailure"   "Failed to lock proxy manager"
Ok == "ok"
ReloadErrors == {"NotFound", "IoFailure", "EmptyCatalog"}

\* What a call returned: the operation, Ok or the error, the returned value
\* (as a sequence of at most one element), the number of fs::read_to_string
\* calls it made and whether it called load_proxies.
Return(op, err, out, reads, attempted) ==
    [op |-> op, err |-> err, out |-> out, reads |-> reads,
     attempted |-> attempted]

NoCall == Return("none", Ok, <<>>, 0, FALSE)

\* The locals of a thread that is in no call.
NoLocals == [path |-> DefaultPath, res |-> NoCall]

\* ProxyManager::new() behind PROXY_MANAGER.get_or_init, PROXY_ENABLED's
\* Mutex::new(true) and PROXY_FILE_PATH's Mutex::new("proxies.txt").
InitProgram ==
    /\ proxies = <<>>
    /\ now = 0
    /\ last_updated = now - InitialBackdate
    /\ proxy_enabled = TRUE
    /\ proxy_file_path = DefaultPath
    /\ poisoned = {}
    /\ holder = [l \in {"manager", "path"} |-> "none"]
    /\ pc = [t \in Threads |-> "idle"]
    /\ loc = [t \in Threads |-> NoLocals]
    /\ disk = [p \in Paths |-> NoFile]
    /\ ret = NoCall
    /\ ever_loaded = FALSE
    /\ calls = <<>>

NoArg == <<>>

Init == InitProgram /\ arg = NoArg /\ result = <<>>

(***************************************************************************)
(* The gateway's readers of the two settings.                              *)
(***************************************************************************)
\* get_proxy_file_path: unwrap_or_else(|_| "proxies.txt") on a lock error.
GetProxyFilePath ==
    IF "path" \in poisoned THEN DefaultPath ELSE proxy_file_path

\* is_proxy_enabled: unwrap_or(true) on a lock error.
IsProxyEnabled ==
    IF "enabled" \in poisoned THEN TRUE ELSE proxy_enabled

\* proxy_file_exists
ProxyFileExists == disk[GetProxyFilePath].exists

\* should_use_proxy
ShouldUseProxyIgnoringFile == IsProxyEnabled

ShouldUseProxy == IsProxyEnabled /\ ProxyFileExists

(***************************************************************************)
(* ProxyManager.                                                           *)
(***************************************************************************)
\* The condition of ensure_proxies_loaded with >= for >.
NeedsReloadAtInterval(entries, stamp, t) ==
    t - stamp >= UpdateInterval \/ entries = <<>>

\* self.last_updated.elapsed() > self.update_interval
\*     || self.proxies.is_empty()
NeedsReload(entries, stamp, t) ==
    t - stamp > UpdateInterval \/ entries = <<>>

\* The entries the loop of load_proxies collects from each of the files the
\* environment can write, computed once.
ParsedContents == [c \in Contents |-> ParseLines(c)]

\* load_proxies assigning self.proxies before it tests new_proxies.
LoadFileAssignFirst(path, entries) ==
    LET f == disk[path]
    IN  IF ~f.exists THEN [err |-> "NotFound", proxies |-> entries, reads |-> 0]
        ELSE IF ~f.readable
        THEN [err |-> "IoFailure", proxies |-> entries, reads |-> 1]
        ELSE LET new_proxies == ParsedContents[f.content]
             IN  [err |-> IF new_proxies = <<>> THEN "EmptyCatalog" ELSE Ok,
                  proxies |-> new_proxies, reads |-> 1]

\* load_proxies without the new_proxies.is_empty() test.
LoadFileNoEmptyTest(path, entries) ==
    LET f == disk[path]
    IN  IF ~f.exists THEN [err |-> "NotFound", proxies |-> entries, reads |-> 0]
        ELSE IF ~f.readable
        THEN [err |-> "IoFailure", proxies |-> entries, reads |-> 1]
        ELSE [err |-> Ok, proxies |-> ParsedContents[f.content], reads |-> 1]

\* load_proxies on the file at `path`, the catalog holding `entries`: the
\* error or Ok, the value of self.proxies afterwards and the number of
\* fs::read_to_string calls.
LoadFile(path, entries) ==
    LET f == disk[path]
    IN  IF ~f.exists THEN [err |-> "NotFound", proxies |-> entries, reads |-> 0]
        ELSE IF ~f.readable
        THEN [err |-> "IoFailure", proxies |-> entries, reads |-> 1]
        ELSE LET new_proxies == ParsedContents[f.content]
             IN  IF new_proxies = <<>>
                 THEN [err |-> "EmptyCatalog", proxies |-> entries, reads |-> 1]
                 ELSE [err |-> Ok, proxies |-> new_proxies, reads |-> 1]

\* load_proxies: the path is read from PROXY_FILE_PATH at the call.
LoadProxies == LoadFile(GetProxyFilePath, proxies)

\* ensure_proxies_loaded stamping last_updated whatever load_proxies returns.
EnsureOutcomeStampAlways ==
    IF NeedsReload(proxies, last_updated, now)
    THEN LET l == LoadProxies
         IN  [err |-> l.err, proxies |-> l.proxies, last_updated |-> now,
              reads |-> l.reads, attempted |-> TRUE]
    ELSE [err |-> Ok, proxies |-> proxies, last_updated |-> last_updated,
          reads |-> 0, attempted |-> FALSE]

\* ensure_proxies_loaded retrying load_proxies once after a failure.
EnsureOutcomeRetry ==
    IF NeedsReload(proxies, last_updated, now)
    THEN LET l == LoadProxies
         IN  [err |-> l.err, proxies |-> l.proxies,
              last_updated |-> IF l.err = Ok THEN now ELSE last_updated,
              reads |-> IF l.err = Ok THEN l.reads ELSE l.reads + l.reads,
              attempted |-> TRUE]
    ELSE [err |-> Ok, proxies |-> proxies, last_updated |-> last_updated,
          reads |-> 0, attempted |-> FALSE]

\* ensure_proxies_loaded: the `?` returns the error of load_proxies before
\* last_updated is assigned.
EnsureOutcome ==
    IF NeedsReload(proxies, last_updated, now)
    THEN LET l == LoadProxies
         IN  [err |-> l.err, proxies |-> l.proxies,
              last_updated |-> IF l.err = Ok THEN now ELSE last_updated,
              reads |-> l.reads, attempted |-> TRUE]
    ELSE [err |-> Ok, proxies |-> proxies, last_updated |-> last_updated,
          reads |-> 0, attempted |-> FALSE]

(***************************************************************************)
(* ProxyManager::get_random_proxy after ensure_proxies_loaded returned     *)
(* outcome o: the set of values the call can return.                       *)
(***************************************************************************)
\* get_random_proxy choosing among the entries held before the reload.
SelectResultsSuperseded(o) ==
    IF o.err # Ok
    THEN {Return("get", o.err, <<>>, o.reads, o.attempted)}
    ELSE IF proxies = <<>>
    THEN {Return("get", Ok, <<o.proxies[i]>>, o.reads, o.attempted) :
            i \in 1..Len(o.proxies)}
    ELSE {Return("get", Ok, <<proxies[i]>>, o.reads, o.attempted) :
            i \in 1..Len(proxies)}

\* get_random_proxy reporting a failed reload as "No proxies available".
SelectResultsMasked(o) ==
    IF o.err # Ok \/ o.proxies = <<>>
    THEN {Return("get", "Unavailable", <<>>, o.reads, o.attempted)}
    ELSE {Return("get", Ok, <<o.proxies[i]>>, o.reads, o.attempted) :
            i \in 1..Len(o.proxies)}

\* get_random_proxy falling back to a cached entry when the reload fails.
SelectResultsFallback(o) ==
    IF o.proxies = <<>>
    THEN {Return("get", IF o.err # Ok THEN o.err ELSE "Unavailable", <<>>,
                 o.reads, o.attempted)}
    ELSE {Return("get", Ok, <<o.proxies[i]>>, o.reads, o.attempted) :
            i \in 1..Len(o.proxies)}

\* self.ensure_proxies_loaded()?; the is_empty() test; choose(&mut rng).
SelectResults(o) ==
    IF o.err # Ok
    THEN {Return("get", o.err, <<>>, o.reads, o.attempted)}
    ELSE IF o.proxies = <<>>
    THEN {Return("get", "Unavailable", <<>>, o.reads, o.attempted)}
    ELSE {Return("get", Ok, <<o.proxies[i]>>, o.reads, o.attempted) :
            i \in 1..Len(o.proxies)}

(***************************************************************************)
(* The calls, each as one step.                                            *)
(***************************************************************************)
\* The effect of a call of ensure_proxies_loaded, made by a caller that
\* holds the guard of PROXY_MANAGER, on everything but `calls`.
EnsureStep ==
    /\ "manager" \notin poisoned
    /\ LET o == EnsureOutcome
       IN  /\ proxies' = o.proxies
           /\ last_updated' = o.last_updated
           /\ ever_loaded' = (ever_loaded \/ (o.attempted /\ o.err = Ok))
           /\ ret' = Return("ensure", o.err, <<>>, o.reads, o.attempted)
    /\ UNCHANGED <<pure, settings, poisoned, threads, world>>

\* ProxyManager::ensure_proxies_loaded
EnsureProxiesLoaded == EnsureStep /\ UNCHANGED calls

\* get_random_proxy refusing to select while the proxy function is
\* disabled.
GetRandomProxyGated ==
    /\ IF "manager" \in poisoned
       THEN /\ ret' = Return("get", "LockFailure", <<>>, 0, FALSE)
            /\ UNCHANGED <<catalog, ever_loaded>>
       ELSE IF ~IsProxyEnabled
       THEN /\ ret' = Return("get", "Unavailable", <<>>, 0, FALSE)
            /\ UNCHANGED <<catalog, ever_loaded>>
       ELSE LET o == EnsureOutcome
            IN  /\ proxies' = o.proxies
                /\ last_updated' = o.last_updated
                /\ ever_loaded' = (ever_loaded \/ (o.attempted /\ o.err = Ok))
                /\ ret' \in SelectResults(o)
    /\ UNCHANGED <<pure, settings, poisoned, threads, world, calls>>

\* The global get_random_proxy: lock PROXY_MANAGER, run the method, drop
\* the guard on return.
GetRandomProxy ==
    /\ IF "manager" \in poisoned
       THEN /\ ret' = Return("get", "LockFailure", <<>>, 0, FALSE)
            /\ UNCHANGED <<catalog, ever_loaded>>
       ELSE LET o == EnsureOutcome
            IN  /\ proxies' = o.proxies
                /\ last_updated' = o.last_updated
                /\ ever_loaded' = (ever_loaded \/ (o.attempted /\ o.err = Ok))
                /\ ret' \in SelectResults(o)
    /\ UNCHANGED <<pure, settings, poisoned, threads, world, calls>>

\* proxy_count refreshing the catalog before it reads the length.
ProxyCountEnsuring ==
    /\ "manager" \notin poisoned
    /\ LET o == EnsureOutcome
       IN  /\ proxies' = o.proxies
           /\ last_updated' = o.last_updated
           /\ ever_loaded' = (ever_loaded \/ (o.attempted /\ o.err = Ok))
           /\ ret' = Return("count", Ok, <<Len(o.proxies)>>, o.reads,
                            o.attempted)
    /\ UNCHANGED <<pure, settings, poisoned, threads, world, calls>>

\* ProxyManager::proxy_count, by a caller that holds the guard.
ProxyCount ==
    /\ "manager" \notin poisoned
    /\ ret' = Return("count", Ok, <<Len(proxies)>>, 0, FALSE)
    /\ UNCHANGED <<pure, catalog, settings, poisoned, threads, world, ever_loaded,
                   calls>>

\* set_proxy_enabled: `if let Ok(..) = setting.lock()`, no else.
SetProxyEnabled(enabled) ==
    /\ proxy_enabled' =
           IF "enabled" \in poisoned THEN proxy_enabled ELSE enabled
    /\ ret' = Return("set_enabled", Ok, <<enabled>>, 0, FALSE)
    /\ UNCHANGED <<pure, catalog, proxy_file_path, poisoned, threads, world,
                   ever_loaded, calls>>

\* is_proxy_enabled
IsProxyEnabledCall ==
    /\ ret' = Return("is_enabled", Ok, <<IsProxyEnabled>>, 0, FALSE)
    /\ UNCHANGED <<pure, catalog, settings, poisoned, threads, world, ever_loaded,
                   calls>>

\* set_proxy_file_path expiring the catalog as well.
SetProxyFilePathExpiring(path) ==
    /\ proxy_file_path' =
           IF "path" \in poisoned THEN proxy_file_path ELSE path
    /\ last_updated' = now - InitialBackdate
    /\ ret' = Return("set_path", Ok, <<path>>, 0, FALSE)
    /\ UNCHANGED <<pure, proxies, proxy_enabled, poisoned, threads, world,
                   ever_loaded, calls>>

\* set_proxy_file_path: `if let Ok(..) = setting.lock()`, no else.
SetProxyFilePath(path) ==
    /\ proxy_file_path' =
           IF "path" \in poisoned THEN proxy_file_path ELSE path
    /\ ret' = Return("set_path", Ok, <<path>>, 0, FALSE)
    /\ UNCHANGED <<pure, catalog, proxy_enabled, poisoned, threads, world,
                   ever_loaded, calls>>

\* get_proxy_file_path
GetProxyFilePathCall ==
    /\ ret' = Return("get_path", Ok, <<GetProxyFilePath>>, 0, FALSE)
    /\ UNCHANGED <<pure, catalog, settings, poisoned, threads, world, ever_loaded,
                   calls>>

\* proxy_file_exists
ProxyFileExistsCall ==
    /\ ret' = Return("exists", Ok, <<ProxyFileExists>>, 0, FALSE)
    /\ UNCHANGED <<pure, catalog, settings, poisoned, threads, world, ever_loaded,
                   calls>>

\* should_use_proxy
ShouldUseProxyCall ==
    /\ ret' = Return("should_use", Ok, <<ShouldUseProxy>>, 0, FALSE)
    /\ UNCHANGED <<pure, catalog, settings, poisoned, threads, world, ever_loaded,
                   calls>>

(***************************************************************************)
(* The environment.                                                        *)
(***************************************************************************)
\* The clock advances by the refresh interval or by a second more, so that
\* elapsed times of exactly the interval, of a second more and of a second
\* alone all occur.
TickSteps == {UpdateInterval, UpdateInterval + 1}

Tick ==
    /\ \E d \in TickSteps :
          /\ now + d <= MaxNow
          /\ now' = now + d
    /\ ret' = NoCall
    /\ UNCHANGED <<pure, catalog, settings, poisoned, threads, disk, ever_loaded,
                   calls>>

\* The file behind path p is created, replaced, made unreadable or removed.
WriteFile(p) ==
    /\ \E f \in FileStates :
          /\ f # disk[p]
          /\ disk' = [disk EXCEPT ![p] = f]
    /\ ret' = NoCall
    /\ UNCHANGED <<pure, catalog, settings, poisoned, threads, now, ever_loaded,
                   calls>>

\* A thread that took the guard of `lock` panics while holding it: the
\* Mutex is poisoned and every later lock() on it returns Err.
Poison(lock) ==
    /\ lock \notin poisoned
    /\ poisoned' = poisoned \cup {lock}
    /\ ret' = NoCall
    /\ UNCHANGED <<pure, catalog, settings, threads, world, ever_loaded, calls>>

(***************************************************************************)
(* Spec: the calls one at a time, in any order, with the clock, the files  *)
(* and a panicking holder of the manager's guard (get_proxy_manager is     *)
(* public) as the environment.                                             *)
(***************************************************************************)
Next ==
    \/ EnsureProxiesLoaded
    \/ GetRandomProxy
    \/ ProxyCount
    \/ \E b \in BOOLEAN : SetProxyEnabled(b)
    \/ IsProxyEnabledCall
    \/ \E p \in Paths : SetProxyFilePath(p)
    \/ GetProxyFilePathCall
    \/ ProxyFileExistsCall
    \/ ShouldUseProxyCall
    \/ Tick
    \/ \E p \in Paths : WriteFile(p)
    \/ Poison("manager")

Spec == Init /\ [][Next]_vars

(***************************************************************************)
(* SpecIdem: the idempotence scenario.  Starting from a new ProxyManager,  *)
(* the first MaxCalls calls of ensure_proxies_loaded are recorded with the *)
(* time of the call, whether the configured file existed, the result and   *)
(* the number of file reads; the clock and the file change in between.     *)
(***************************************************************************)
RecordedEnsure ==
    /\ Len(calls) < MaxCalls
    /\ EnsureStep
    /\ calls' = Append(calls, [at |-> now,
                               exists |-> disk[proxy_file_path].exists,
                               err |-> ret'.err,
                               reads |-> ret'.reads])

NextIdem ==
    \/ RecordedEnsure
    \/ Tick
    \/ WriteFile(DefaultPath)

SpecIdem == Init /\ [][NextIdem]_vars

(***************************************************************************)
(* SpecPoison: Spec with lock() failing on PROXY_ENABLED and on            *)
(* PROXY_FILE_PATH too, the case the Err branches of set_proxy_enabled,    *)
(* is_proxy_enabled, set_proxy_file_path and get_proxy_file_path handle.   *)
(***************************************************************************)
NextPoison ==
    \/ Next
    \/ Poison("enabled")
    \/ Poison("path")

SpecPoison == Init /\ [][NextPoison]_vars

(***************************************************************************)
(* SpecConc: the threads of the process calling get_random_proxy and       *)
(* set_proxy_file_path concurrently, one statement at a time.              *)
(*   pc = "idle"    in no call                                             *)
(*        "lock"    at manager.lock()                                      *)
(*        "check"   holding the guard, at the test of ensure_proxies_loaded*)
(*        "path"    in load_proxies, at get_proxy_file_path()              *)
(*        "load"    in load_proxies, at the exists() test                  *)
(*        "stamp"   at self.last_updated = Instant::now()                  *)
(*        "select"  at the is_empty() test of get_random_proxy             *)
(*        "unlock"  returning: the guard is dropped                        *)
(*        "setpath" in set_proxy_file_path, holding the path guard         *)
(***************************************************************************)
Critical == {"check", "path", "load", "stamp", "select", "unlock"}

\* lock() on PROXY_MANAGER taking the guard whoever holds it.
CanAcquireAlways(t) == TRUE

\* manager.lock() returns the guard only when no thread holds it.
CanAcquire(t) == holder["manager"] = "none"

\* A thread calls get_random_proxy().
BeginGet(t) ==
    /\ pc[t] = "idle"
    /\ pc' = [pc EXCEPT ![t] = "lock"]
    /\ ret' = NoCall
    /\ UNCHANGED <<pure, catalog, settings, poisoned, holder, loc, world,
                   ever_loaded, calls>>

\* manager.lock().map_err(|_| "Failed to lock proxy manager")?
Acquire(t) ==
    /\ pc[t] = "lock"
    /\ IF "manager" \in poisoned
       THEN /\ pc' = [pc EXCEPT ![t] = "idle"]
            /\ ret' = Return("get", "LockFailure", <<>>, 0, FALSE)
            /\ UNCHANGED holder
       ELSE /\ CanAcquire(t)
            /\ holder' = [holder EXCEPT !["manager"] = t]
            /\ pc' = [pc EXCEPT ![t] = "check"]
            /\ ret' = NoCall
    /\ UNCHANGED <<pure, catalog, settings, poisoned, loc, world, ever_loaded,
                   calls>>

\* The test of ensure_proxies_loaded.
Check(t) ==
    /\ pc[t] = "check"
    /\ pc' = [pc EXCEPT ![t] = IF NeedsReload(proxies, last_updated, now)
                                THEN "path" ELSE "select"]
    /\ ret' = NoCall
    /\ UNCHANGED <<pure, catalog, settings, poisoned, holder, loc, world,
                   ever_loaded, calls>>

\* let proxy_file_path = get_proxy_file_path(): the path guard is taken and
\* dropped within the statement.
ReadPath(t) ==
    /\ pc[t] = "path"
    /\ "path" \in poisoned \/ holder["path"] = "none"
    /\ loc' = [loc EXCEPT ![t].path = GetProxyFilePath]
    /\ pc' = [pc EXCEPT ![t] = "load"]
    /\ ret' = NoCall
    /\ UNCHANGED <<pure, catalog, settings, poisoned, holder, world, ever_loaded,
                   calls>>

\* The rest of load_proxies, on the path read before.
Load(t) ==
    /\ pc[t] = "load"
    /\ LET l == LoadFile(loc[t].path, proxies)
       IN  /\ proxies' = l.proxies
           /\ ever_loaded' = (ever_loaded \/ l.err = Ok)
           /\ loc' = [loc EXCEPT ![t].res =
                         Return("get", l.err, <<>>, l.reads, TRUE)]
           /\ pc' = [pc EXCEPT ![t] = IF l.err = Ok THEN "stamp"
                                       ELSE "unlock"]
    /\ ret' = NoCall
    /\ UNCHANGED <<pure, last_updated, settings, poisoned, holder, world, calls>>

\* self.last_updated = Instant::now()
Stamp(t) ==
    /\ pc[t] = "stamp"
    /\ last_updated' = now
    /\ pc' = [pc EXCEPT ![t] = "select"]
    /\ ret' = NoCall
    /\ UNCHANGED <<pure, proxies, settings, poisoned, holder, loc, world,
                   ever_loaded, calls>>

\* The is_empty() test and choose(&mut rng) of get_random_proxy.
Select(t) ==
    /\ pc[t] = "select"
    /\ \E r \in SelectResults([err |-> Ok, proxies |-> proxies,
                               reads |-> loc[t].res.reads,
                               attempted |-> loc[t].res.attempted]) :
          loc' = [loc EXCEPT ![t].res = r]
    /\ pc' = [pc EXCEPT ![t] = "unlock"]
    /\ ret' = NoCall
    /\ UNCHANGED <<pure, catalog, settings, poisoned, holder, world, ever_loaded,
                   calls>>

\* get_random_proxy returning with its guard leaked (never dropped).
ReleaseKeepsGuard(t) ==
    /\ pc[t] = "unlock"
    /\ pc' = [pc EXCEPT ![t] = "idle"]
    /\ ret' = loc[t].res
    /\ loc' = [loc EXCEPT ![t] = NoLocals]
    /\ UNCHANGED <<pure, catalog, settings, poisoned, holder, world, ever_loaded,
                   calls>>

\* get_random_proxy returns its result and its guard is dropped.
Release(t) ==
    /\ pc[t] = "unlock"
    /\ holder' = [holder EXCEPT !["manager"] = "none"]
    /\ pc' = [pc EXCEPT ![t] = "idle"]
    /\ ret' = loc[t].res
    /\ loc' = [loc EXCEPT ![t] = NoLocals]
    /\ UNCHANGED <<pure, catalog, settings, poisoned, world, ever_loaded, calls>>

\* set_proxy_file_path(path): setting.lock() returned the guard.
BeginSetPath(t, path) ==
    /\ pc[t] = "idle"
    /\ holder["path"] = "none"
    /\ holder' = [holder EXCEPT !["path"] = t]
    /\ loc' = [loc EXCEPT ![t].path = path]
    /\ pc' = [pc EXCEPT ![t] = "setpath"]
    /\ ret' = NoCall
    /\ UNCHANGED <<pure, catalog, settings, poisoned, world, ever_loaded, calls>>

\* *setting = path; the guard is dropped at the end of the block.
EndSetPath(t) ==
    /\ pc[t] = "setpath"
    /\ proxy_file_path' = loc[t].path
    /\ holder' = [holder EXCEPT !["path"] = "none"]
    /\ pc' = [pc EXCEPT ![t] = "idle"]
    /\ ret' = Return("set_path", Ok, <<loc[t].path>>, 0, FALSE)
    /\ loc' = [loc EXCEPT ![t] = NoLocals]
    /\ UNCHANGED <<pure, catalog, proxy_enabled, poisoned, world, ever_loaded,
                   calls>>

\* A holder of the manager's guard outside these threads panics.
PoisonFreeManager == holder["manager"] = "none" /\ Poison("manager")

NextConc ==
    \/ \E t \in Threads : BeginGet(t)
    \/ \E t \in Threads : Acquire(t)
    \/ \E t \in Threads : Check(t)
    \/ \E t \in Threads : ReadPath(t)
    \/ \E t \in Threads : Load(t)
    \/ \E t \in Threads : Stamp(t)
    \/ \E t \in Threads : Select(t)
    \/ \E t \in Threads : Release(t)
    \/ \E t \in Threads, p \in Paths : BeginSetPath(t, p)
    \/ \E t \in Threads : EndSetPath(t)
    \/ Tick
    \/ \E p \in Paths : WriteFile(p)
    \/ PoisonFreeManager

SpecConc == Init /\ [][NextConc]_vars

(***************************************************************************)
(* SpecLive: SpecConc under a fair scheduler.  A thread that can take a    *)
(* step inside a call eventually takes it (weak fairness); a thread        *)
(* waiting at lock() on PROXY_MANAGER, or at the lock() of                 *)
(* get_proxy_file_path, gets the guard if it is free again and again       *)
(* (strong fairness: the lock is handed over fairly).  Nothing obliges a   *)
(* thread to start a call, the clock to advance or the file to change.     *)
(***************************************************************************)
\* The steps of thread t inside a call that need no lock to be free.
Internal(t) ==
    \/ Check(t)
    \/ Load(t)
    \/ Stamp(t)
    \/ Select(t)
    \/ Release(t)
    \/ EndSetPath(t)

\* Any step of thread t inside a call.
Progress(t) == Acquire(t) \/ ReadPath(t) \/ Internal(t)

\* Strong fairness of a thread's steps: for the steps of Internal(t), which
\* stay enabled until taken, it is weak fairness; for Acquire(t) and
\* ReadPath(t) it is the fair handing over of the lock.
Fairness == \A t \in Threads : SF_vars(Progress(t))

\* The threads' steps with the environment that decides how a call ends:
\* the file at the default path and a panicking holder of the manager's
\* guard.
NextLive ==
    \/ \E t \in Threads : BeginGet(t) \/ Progress(t)
    \/ \E t \in Threads, p \in Paths : BeginSetPath(t, p)
    \/ WriteFile(DefaultPath)
    \/ Tick
    \/ PoisonFreeManager

SpecLive == Init /\ [][NextLive]_vars /\ Fairness

(***************************************************************************)
(* ProxyConfig::from_string on its own: the argument is drawn from a       *)
(* bounded set of lines and the function is applied to it.  A line is      *)
(* built from its fields, so that what splitting it on ':' yields is known  *)
(* without splitting it.                                                   *)
(***************************************************************************)
\* The largest number of fields of a line.
MaxFields == 5

\* Texts of the host, username and password fields.
Words == {<<>>, <<"h">>, <<"u", "p">>}

\* Texts of the port field with what str::parse::<u16> makes of each
\* (-1 for Err): an optional "+", digits, leading zeros allowed, no white
\* space, no "-", at most u16::MAX.
PortTable ==
    { << <<"0">>, 0 >>,
      << <<"8", "0">>, 80 >>,
      << <<"0", "8", "0">>, 80 >>,
      << <<"+", "8", "0">>, 80 >>,
      << <<"6", "5", "5", "3", "5">>, 65535 >>,
      << <<"6", "5", "5", "3", "6">>, -1 >>,
      << <<"9", "9", "9", "9", "9", "9">>, -1 >>,
      << <<>>, -1 >>,
      << <<"+">>, -1 >>,
      << <<"-", "1">>, -1 >>,
      << <<" ", "8", "0">>, -1 >>,
      << <<"8", "x">>, -1 >>,
      << <<"h">>, -1 >> }

PortTexts == {e[1] : e \in PortTable}

\* White space around a line.
Pads == {<<>>, <<" ">>, <<"\t", " ">>}

\* The field sequences of n fields: the second one is a port text.
FieldSeqs(n) ==
    IF n = 1 THEN {<<w>> : w \in Words}
    ELSE {<<h, p>> \o rest :
             h \in Words, p \in PortTexts, rest \in [1..(n - 2) -> Words]}

LineArgs ==
    [lead : Pads, trail : Pads,
     fields : UNION {FieldSeqs(n) : n \in 1..MaxFields}]

RECURSIVE Join(_)
Join(fields) ==
    IF Len(fields) = 1 THEN fields[1]
    ELSE fields[1] \o <<":">> \o Join(Tail(fields))

\* The text of a line.
Text(a) == a.lead \o Join(a.fields) \o a.trail

InitParse == InitProgram /\ arg \in LineArgs /\ result = <<>>

FromStringCall ==
    /\ result = <<>>
    /\ result' = <<FromString(Text(arg))>>
    /\ UNCHANGED <<arg, program>>

NextParse == FromStringCall

SpecParse == InitParse /\ [][NextParse]_vars

(***************************************************************************)
(* orchestrator/error.rs: the constructors of OrchestratorError and        *)
(* describe_status, applied to an argument drawn from a bounded set.       *)
(***************************************************************************)
\* StatusCode::canonical_reason of the http crate, for the codes it names
\* in every release (103 and 425, named by later releases only, are left
\* out of the codes drawn).
CanonicalReasons ==
    {
      <<100, "Continue">>,
      <<101, "Switching Protocols">>,
      <<102, "Processing">>,
      <<200, "OK">>,
      <<201, "Created">>,
      <<202, "Accepted">>,
      <<203, "Non Authoritative Information">>,
      <<204, "No Content">>,
      <<205, "Reset Content">>,
      <<206, "Partial Content">>,
      <<207, "Multi-Status">>,
      <<208, "Already Reported">>,
      <<226, "IM Used">>,
      <<300, "Multiple Choices">>,
      <<301, "Moved Permanently">>,
      <<302, "Found">>,
      <<303, "See Other">>,
      <<304, "Not Modified">>,
      <<305, "Use Proxy">>,
      <<307, "Temporary Redirect">>,
      <<308, "Permanent Redirect">>,
      <<400, "Bad Request">>,
      <<401, "Unauthorized">>,
      <<402, "Payment Required">>,
      <<403, "Forbidden">>,
      <<404, "Not Found">>,
      <<405, "Method Not Allowed">>,
      <<406, "Not Acceptable">>,
      <<407, "Proxy Authentication Required">>,
      <<408, "Request Timeout">>,
      <<409, "Conflict">>,
      <<410, "Gone">>,
      <<411, "Length Required">>,
      <<412, "Precondition Failed">>,
      <<413, "Payload Too Large">>,
      <<414, "URI Too Long">>,
      <<415, "Unsupported Media Type">>,
      <<416, "Range Not Satisfiable">>,
      <<417, "Expectation Failed">>,
      <<418, "I'm a teapot">>,
      <<421, "Misdirected Request">>,
      <<422, "Unprocessable Entity">>,
      <<423, "Locked">>,
      <<424, "Failed Dependency">>,
      <<426, "Upgrade Required">>,
      <<428, "Precondition Required">>,
      <<429, "Too Many Requests">>,
      <<431, "Request Header Fields Too Large">>,
      <<451, "Unavailable For Legal Reasons">>,
      <<500, "Internal Server Error">>,
      <<501, "Not Implemented">>,
      <<502, "Bad Gateway">>,
      <<503, "Service Unavailable">>,
      <<504, "Gateway Timeout">>,
      <<505, "HTTP Version Not Supported">>,
      <<506, "Variant Also Negotiates">>,
      <<507, "Insufficient Storage">>,
      <<508, "Loop Detected">>,
      <<510, "Not Extended">>,
      <<511, "Network Authentication Required">> }

\* Codes without a canonical reason: below 100, unassigned within 100..999,
\* above 999.
OtherCodes == {0, 7, 99, 199, 299, 419, 499, 599, 600, 999, 1000, 9999,
               10000, 65535}

Codes == {e[1] : e \in CanonicalReasons} \cup OtherCodes

\* StatusCode::from_u16 is Ok for 100..=999.
ValidStatus(code) == code >= 100 /\ code < 1000

\* canonical_reason(): <<>> for None, <<reason>> for Some(reason).
CanonicalReason(code) ==
    IF \E e \in CanonicalReasons : e[1] = code
    THEN <<(CHOOSE e \in CanonicalReasons : e[1] = code)[2]>>
    ELSE <<>>

DigitChar(d) ==
    CASE d = 0 -> "0" [] d = 1 -> "1" [] d = 2 -> "2" [] d = 3 -> "3"
      [] d = 4 -> "4" [] d = 5 -> "5" [] d = 6 -> "6" [] d = 7 -> "7"
      [] d = 8 -> "8" [] d = 9 -> "9"

\* The "{}" of format! for a u16: decimal, no sign, no leading zero.
RECURSIVE FormatU16(_)
FormatU16(n) ==
    IF n < 10 THEN <<DigitChar(n)>>
    ELSE FormatU16(n \div 10) \o <<DigitChar(n % 10)>>

\* describe_status with a default reason that leaves the code out.
DescribeStatusBare(code) ==
    LET default_reason == <<"Unknown status code ">>
    IN  IF ValidStatus(code) /\ CanonicalReason(code) # <<>>
        THEN CanonicalReason(code)
        ELSE default_reason

\* describe_status.  A message is a sequence of pieces of text: the
\* canonical reason, or "Unknown status code " followed by the digits.
DescribeStatus(code) ==
    LET default_reason == <<"Unknown status code ">> \o FormatU16(code)
    IN  IF ValidStatus(code)
        THEN IF CanonicalReason(code) # <<>>
             THEN CanonicalReason(code)
             ELSE default_reason
        ELSE default_reason

\* What is classified: a completed response (its status is a StatusCode,
\* hence valid), a reqwest::Error, a prost DecodeError; and the codes
\* describe_status is called with.
ClassifyArgs ==
    {[kind |-> "response", status |-> c] : c \in {d \in Codes : ValidStatus(d)}}
    \cup {[kind |-> "describe", status |-> c] : c \in Codes}
    \cup {[kind |-> "transport", status |-> 0],
          [kind |-> "decode", status |-> 0]}

InitClassify == InitProgram /\ arg \in ClassifyArgs /\ result = <<>>

\* OrchestratorError::from_response
FromResponse ==
    /\ arg.kind = "response"
    /\ result = <<>>
    /\ result' = << [kind |-> "Http", status |-> arg.status,
                     message |-> DescribeStatus(arg.status)] >>
    /\ UNCHANGED <<arg, program>>

\* From<reqwest::Error>
FromReqwest ==
    /\ arg.kind = "transport"
    /\ result = <<>>
    /\ result' = << [kind |-> "Reqwest", status |-> 0, message |-> <<>>] >>
    /\ UNCHANGED <<arg, program>>

\* From<DecodeError>
FromDecode ==
    /\ arg.kind = "decode"
    /\ result = <<>>
    /\ result' = << [kind |-> "Decode", status |-> 0, message |-> <<>>] >>
    /\ UNCHANGED <<arg, program>>

\* describe_status called on its own.
DescribeStatusCall ==
    /\ arg.kind = "describe"
    /\ result = <<>>
    /\ result' = << [kind |-> "Reason", status |-> arg.status,
                     message |-> DescribeStatus(arg.status)] >>
    /\ UNCHANGED <<arg, program>>

NextClassify ==
    \/ FromResponse
    \/ FromReqwest
    \/ FromDecode
    \/ DescribeStatusCall

SpecClassify == InitClassify /\ [][NextClassify]_vars

(***************************************************************************)
(* Vocabulary of the properties, stated from the specification's words and *)
(* independently of the operators above.                                   *)
(***************************************************************************)
\* The step is a call that ran ensure_proxies_loaded on an acquired lock.
CallOnCatalog ==
    ret'.op \in {"ensure", "get"} /\ "manager" \notin poisoned

\* No successful load has occurred yet, or the time elapsed since the last
\* successful load strictly exceeds the refresh interval.
Stale == ~ever_loaded \/ now - last_updated > UpdateInterval

\* The file a reload would read.
ConfiguredFile == disk[proxy_file_path]

\* How a reload attempted in this state must end.
ReloadVerdict ==
    IF ~ConfiguredFile.exists THEN "NotFound"
    ELSE IF ~ConfiguredFile.readable THEN "IoFailure"
    ELSE IF ParseLines(ConfiguredFile.content) = <<>> THEN "EmptyCatalog"
    ELSE Ok

Elements(seq) == {seq[i] : i \in 1..Len(seq)}

(***************************************************************************)
(* C1.  A reload whose file is readable but yields zero valid entries      *)
(* reports EmptyCatalog and leaves the entry sequence and the timestamp of *)
(* the last successful load as they were, whatever the catalog held.       *)
(***************************************************************************)
C1_EmptyReloadKeepsCatalog ==
    [][(/\ CallOnCatalog
        /\ Stale
        /\ ConfiguredFile.readable
        /\ ParseLines(ConfiguredFile.content) = <<>>)
       => (/\ ret'.err = "EmptyCatalog"
           /\ proxies' = proxies
           /\ last_updated' = last_updated)]_vars

\* A stale, non-empty catalog has survived a reload that found no entry.
C1_Witness ==
    /\ ret.op \in {"ensure", "get"}
    /\ ret.err = "EmptyCatalog"
    /\ ret.reads = 1
    /\ proxies # <<>>
    /\ now - last_updated > UpdateInterval

(***************************************************************************)
(* C2.  The entry sequence is empty if and only if no reload has ever      *)
(* succeeded; once non-empty it never becomes empty again; and only a      *)
(* successful reload changes it.                                           *)
(***************************************************************************)
C2_EmptyIffNeverLoaded ==
    /\ [](proxies = <<>> <=> ~ever_loaded)
    /\ [][proxies # <<>> => proxies' # <<>>]_vars
    /\ [][proxies' # proxies
          => (/\ CallOnCatalog
              /\ Stale
              /\ ReloadVerdict = Ok
              /\ ret'.reads = 1
              /\ proxies' = ParseLines(ConfiguredFile.content))]_vars

\* A loaded catalog has gone through a failed reload and a count() call.
C2_Witness ==
    /\ ever_loaded
    /\ proxies # <<>>
    /\ ret.op = "count"
    /\ ret.out = <<Len(proxies)>>
    /\ ReloadVerdict = "EmptyCatalog"
    /\ Stale

(***************************************************************************)
(* C3.  The catalog is accessed under one lock held for the whole          *)
(* staleness check, reload and selection of a getRandomProxy call: at most *)
(* one caller is inside that section at a time and it holds the lock; the  *)
(* entries and the timestamp change only by a step of that caller while    *)
(* every other caller is outside the section; and the entry a call returns *)
(* is an element of the sequence as it stands when the call returns.       *)
(***************************************************************************)
C3_OneCallerInSection ==
    /\ [](Cardinality({t \in Threads : pc[t] \in Critical}) <= 1)
    /\ [](\A t \in Threads : pc[t] \in Critical => holder["manager"] = t)
    /\ [][catalog' # catalog
          => \E t \in Threads :
                /\ pc[t] \in {"load", "stamp"}
                /\ holder["manager"] = t
                /\ \A u \in Threads \ {t} :
                      pc[u] \notin Critical /\ pc'[u] = pc[u]]_vars
    /\ [][\A t \in Threads :
             (pc[t] = "unlock" /\ pc'[t] = "idle" /\ loc[t].res.err = Ok)
             => (ret' = loc[t].res /\ ret'.out[1] \in Elements(proxies))]_vars

\* One caller is in the middle of a reload (new entries stored, timestamp
\* not yet advanced) while the other waits at lock().
C3_Witness ==
    /\ pc["t1"] = "stamp"
    /\ pc["t2"] = "lock"
    /\ holder["manager"] = "t1"
    /\ proxies # <<>>
    /\ now - last_updated > UpdateInterval

(***************************************************************************)
(* C4.  As stated: calling ensureFresh() twice within the refresh interval *)
(* performs exactly one file read in total, and calling it once more after *)
(* the interval has elapsed performs exactly one more file read.  (Stated  *)
(* for the runs in which the file exists at each of the calls.)            *)
(***************************************************************************)
C4_AsStated ==
    /\ (/\ Len(calls) >= 2
        /\ calls[1].exists /\ calls[2].exists
        /\ calls[2].at - calls[1].at <= UpdateInterval)
       => calls[1].reads + calls[2].reads = 1
    /\ (/\ Len(calls) >= 3
        /\ calls[1].exists /\ calls[2].exists /\ calls[3].exists
        /\ calls[2].at - calls[1].at <= UpdateInterval
        /\ calls[3].at - calls[1].at > UpdateInterval)
       => calls[3].reads = 1

(***************************************************************************)
(* C4, amended.  When the reload of the first ensureFresh() call succeeds, *)
(* that call and a second one within the refresh interval perform exactly  *)
(* one file read in total, and a call made after the interval has elapsed  *)
(* performs exactly one more file read if the file still exists and none   *)
(* if it does not.                                                         *)
(***************************************************************************)
C4_OneReadWhenFirstLoadSucceeds ==
    /\ (/\ Len(calls) >= 2
        /\ calls[1].err = Ok
        /\ calls[2].at - calls[1].at <= UpdateInterval)
       => (/\ calls[1].reads = 1
           /\ calls[2].reads = 0
           /\ calls[2].err = Ok)
    /\ (/\ Len(calls) >= 3
        /\ calls[1].err = Ok
        /\ calls[2].at - calls[1].at <= UpdateInterval
        /\ calls[3].at - calls[1].at > UpdateInterval)
       => calls[3].reads = IF calls[3].exists THEN 1 ELSE 0

\* Three calls: a successful load, a call exactly one interval later that
\* reads nothing, and a call one second later that reads the file again.
C4_Witness ==
    /\ Len(calls) = 3
    /\ calls[1].err = Ok
    /\ calls[2].at - calls[1].at = UpdateInterval
    /\ calls[2].reads = 0
    /\ calls[3].at - calls[1].at > UpdateInterval
    /\ calls[3].reads = 1

(***************************************************************************)
(* C5.  ensureFresh() triggers a reload if and only if no successful load  *)
(* has occurred yet or the time elapsed since the last successful load     *)
(* strictly exceeds the refresh interval; in every other state (an elapsed *)
(* time equal to the interval included) it reads no file and leaves the    *)
(* catalog and the timestamp unchanged.                                    *)
(***************************************************************************)
C5_ReloadIffStale ==
    [][CallOnCatalog
       => (/\ ret'.attempted <=> Stale
           /\ ~Stale => (/\ ret'.reads = 0
                         /\ ret'.err = Ok
                         /\ proxies' = proxies
                         /\ last_updated' = last_updated))]_vars

\* ensureFresh() was called exactly one interval after the last load and
\* did not reload.
C5_Witness ==
    /\ ret.op = "ensure"
    /\ ~ret.attempted
    /\ ever_loaded
    /\ now - last_updated = UpdateInterval

(***************************************************************************)
(* C6.  When the reload triggered by ensureFresh() fails, that failure is  *)
(* returned to the caller of ensureFresh()/selectRandom()/getRandomProxy() *)
(* and the call has made one reload attempt: no second file read.          *)
(***************************************************************************)
C6_FailurePropagatesOnce ==
    [][(CallOnCatalog /\ Stale /\ ReloadVerdict # Ok)
       => (/\ ret'.err = ReloadVerdict
           /\ ret'.out = <<>>
           /\ ret'.attempted
           /\ ret'.reads = IF ConfiguredFile.exists THEN 1 ELSE 0)]_vars

\* getRandomProxy() returned the failure of the one read it made of an
\* unreadable file.
C6_Witness ==
    /\ ret.op = "get"
    /\ ret.err = "IoFailure"
    /\ ret.reads = 1
    /\ ConfiguredFile = UnreadableFile

(***************************************************************************)
(* C7.  An entry returned by a successful getRandomProxy() is an element   *)
(* of the entry sequence as it stands after the call (after the reload the *)
(* call may have done), and a call that does not reload leaves the stored  *)
(* entries as they were.                                                   *)
(***************************************************************************)
C7_SelectedIsCurrentElement ==
    /\ []((ret.op = "get" /\ ret.err = Ok)
          => (Len(ret.out) = 1 /\ ret.out[1] \in Elements(proxies)))
    /\ [][(ret'.op = "get" /\ ~Stale) => proxies' = proxies]_vars
    /\ [][(ret'.op = "get" /\ ret'.err = Ok /\ Stale)
          => proxies' = ParseLines(ConfiguredFile.content)]_vars

\* getRandomProxy() reloaded after the first load's interval had elapsed
\* and returned an entry of the reloaded sequence.
C7_Witness ==
    /\ ret.op = "get"
    /\ ret.err = Ok
    /\ ret.attempted
    /\ last_updated = now
    /\ now > UpdateInterval
    /\ ret.out[1] \in Elements(ParseLines(ConfiguredFile.content))

(***************************************************************************)
(* C8.  selectRandom() fails with Unavailable exactly when ensureFresh()   *)
(* has completed without failure and the entry sequence is still empty,    *)
(* and then returns no entry.                                              *)
(***************************************************************************)
C8_UnavailableIffEmptyAfterEnsure ==
    [][(ret'.op = "get" /\ "manager" \notin poisoned)
       => (/\ ret'.err = "Unavailable"
                <=> ((Stale => ReloadVerdict = Ok) /\ proxies' = <<>>)
           /\ ret'.err = "Unavailable" => ret'.out = <<>>)]_vars

\* selectRandom() left the sequence empty and did not report Unavailable,
\* because ensureFresh() had failed.
C8_Witness ==
    /\ ret.op = "get"
    /\ proxies = <<>>
    /\ ret.err \in ReloadErrors
    /\ ret.err = ReloadVerdict

(***************************************************************************)
(* C9.  shouldUseProxy() returns true if and only if the enabled flag is   *)
(* true and a file exists at the configured path, whatever the file holds; *)
(* it performs no load and changes neither the entries nor the timestamp.  *)
(***************************************************************************)
C9_ShouldUseProxy ==
    /\ [](ret.op = "should_use"
          => ret.out = <<proxy_enabled /\ ConfiguredFile.exists>>)
    /\ [][ret'.op = "should_use"
          => (/\ ret'.reads = 0
              /\ ~ret'.attempted
              /\ proxies' = proxies
              /\ last_updated' = last_updated)]_vars

\* shouldUseProxy() returned true in a state where getRandomProxy() fails:
\* the file exists, holds no valid entry, and nothing is cached.
C9_Witness ==
    /\ ret.op = "should_use"
    /\ ret.out = <<TRUE>>
    /\ proxies = <<>>
    /\ ConfiguredFile.exists
    /\ ReloadVerdict # Ok
    /\ \A r \in SelectResults(EnsureOutcome) : r.err # Ok

(***************************************************************************)
(* C10.  Every failure to acquire one of the subsystem's locks (catalog,   *)
(* enabled flag, file path) is surfaced to the caller as an error: a call  *)
(* made while the lock it takes is poisoned returns LockFailure.           *)
(***************************************************************************)
C10_LockFailureSurfaced ==
    /\ (ret.op = "get" /\ "manager" \in poisoned)
       => ret.err = "LockFailure"
    /\ (ret.op \in {"set_enabled", "is_enabled"} /\ "enabled" \in poisoned)
       => ret.err = "LockFailure"
    /\ (ret.op \in {"set_path", "get_path"} /\ "path" \in poisoned)
       => ret.err = "LockFailure"

Alice ==
    [host |-> <<"1", ".", "2", ".", "3", ".", "4">>, port |-> 8080,
     username |-> <<"a", "l", "i", "c", "e">>,
     password |-> <<"s", "e", "c", "r", "e", "t">>]

Bob ==
    [host |-> <<"5", ".", "6", ".", "7", ".", "8">>, port |-> 3128,
     username |-> <<"b", "o", "b">>, password |-> <<"p", "w">>]

\* A line that is neither blank nor a comment and that parses.
WellFormed(line) ==
    /\ Trim(line) # <<>>
    /\ Head(Trim(line)) # "#"
    /\ FromString(line) # <<>>

\* The entries of the well-formed lines, in file order.
EntriesOf(lines) ==
    LET kept == SelectSeq(lines, WellFormed)
    IN  [i \in 1..Len(kept) |-> FromString(kept[i])[1]]

C12_ReloadTakesWellFormedLines ==
    /\ [][(CallOnCatalog /\ ret'.attempted /\ ret'.err \notin ReloadErrors)
          => (/\ proxies' = EntriesOf(ConfiguredFile.content)
              /\ ConfiguredFile.content = FileScenario
                 => (/\ proxies' = <<Alice, Bob>>
                     /\ ret'.op = "get" => ret'.out[1] \in {Alice, Bob}))]_vars
    /\ []((ret.op = "count" /\ proxies = <<Alice, Bob>>) => ret.out = <<2>>)

\* count() = 2 after the scenario file replaced the one-entry catalog
\* loaded before (the clock has passed the interval since the first load).
C12_Witness ==
    /\ ret.op = "count"
    /\ ret.out = <<2>>
    /\ proxies = <<Alice, Bob>>
    /\ last_updated > UpdateInterval
    /\ ConfiguredFile = Regular(FileScenario)

(***************************************************************************)
(* C13.  Parsing one line succeeds if and only if the line, with the white *)
(* space around it removed, splits on ':' into exactly 4 fields of which   *)
(* the second is an unsigned 16-bit integer (an optional "+" and decimal   *)
(* digits of a value in 0..65535); on success host, username and password  *)
(* are the first, third and fourth of those fields and port is the value   *)
(* of the second; on every other line parsing fails.                       *)
(***************************************************************************)
\* What splitting the line as it was passed yields.
RawFields(a) ==
    LET n == Len(a.fields)
    IN  [i \in 1..n |->
            (IF i = 1 THEN a.lead ELSE <<>>) \o a.fields[i]
            \o (IF i = n THEN a.trail ELSE <<>>)]

\* What splitting the line without the white space around it yields.
\* (no field text ends in white space and no first field begins with it).
TrimmedFields(a) == a.fields

\* The value of a port text, -1 if it is not an unsigned 16-bit integer.
PortValue(text) ==
    IF text \in PortTexts
    THEN (CHOOSE e \in PortTable : e[1] = text)[2]
    ELSE -1

\* The outcome the statement gives for a line of these fields.
Expected(fields) ==
    IF Len(fields) = FieldCount /\ PortValue(fields[2]) >= 0
    THEN << [host |-> fields[1], port |-> PortValue(fields[2]),
             username |-> fields[3], password |-> fields[4]] >>
    ELSE <<>>

C13_FromStringOnTrimmedLine ==
    result # <<>> => result[1] = Expected(TrimmedFields(arg))

\* A line with white space around it was accepted, its port written "+80".
C13_Witness ==
    /\ result # <<>>
    /\ result[1] # <<>>
    /\ arg.lead # <<>>
    /\ arg.trail # <<>>
    /\ arg.fields[2] = <<"+", "8", "0">>
    /\ result[1][1].port = 80

\* The statement as written: the fields are those of the line as passed.
C13_AsStated ==
    result # <<>> => result[1] = Expected(RawFields(arg))

(***************************************************************************)
(* C14.  count() returns the current length of the cached entry sequence   *)
(* (0 if no load has succeeded) and is a pure read: it triggers no reload,  *)
(* reads no file and leaves the entry sequence and the timestamp           *)
(* unchanged, even when the catalog is stale or empty.                     *)
(***************************************************************************)
C14_CountIsPureRead ==
    [][ret'.op = "count"
       => (/\ ret'.err = Ok
           /\ ret'.out = <<Len(proxies)>>
           /\ ~ever_loaded => ret'.out = <<0>>
           /\ ret'.reads = 0
           /\ ~ret'.attempted
           /\ proxies' = proxies
           /\ last_updated' = last_updated)]_vars

\* count() on a stale two-entry catalog while a readable file with one
\* entry is configured: the cached length is returned.
C14_Witness ==
    /\ ret.op = "count"
    /\ ret.out = <<2>>
    /\ Stale
    /\ ConfiguredFile = Regular(FileAlt)

(***************************************************************************)
(* C15.  Classifying a completed HTTP response always yields the           *)
(* HTTP-status kind with the response's status code and a reason derived   *)
(* from the code alone: the canonical reason for a code of the standard    *)
(* table (404 gives "Not Found"), "Unknown status code {code}" for every   *)
(* other code (599 gives "Unknown status code 599"); a transport failure   *)
(* and a decode failure map to two kinds of their own, distinct from each  *)
(* other and from the HTTP-status kind.                                    *)
(***************************************************************************)
\* The message is "Unknown status code " followed by the decimal numeral
\* of the code.
UnknownReasonOf(message, code) ==
    /\ Len(message) >= 2
    /\ message[1] = "Unknown status code "
    /\ LET numeral == Tail(message)
       IN  /\ \A i \in 1..Len(numeral) : numeral[i] \in Digits
           /\ Len(numeral) > 1 => numeral[1] # "0"
           /\ ParseDigits(numeral, 1, 0) = code

ReasonOf(message, code) ==
    /\ code = 404 => message = <<"Not Found">>
    /\ code = 599 => message = <<"Unknown status code ", "5", "9", "9">>
    /\ \A e \in CanonicalReasons : e[1] = code => message = <<e[2]>>
    /\ code \in OtherCodes => UnknownReasonOf(message, code)

C16_OkMeansNonEmpty ==
    /\ []((ret.op = "ensure" /\ ret.err = Ok) => Len(proxies) >= 1)
    /\ [](ret.err # "Unavailable")
    /\ []((ret.op = "get" /\ ret.err \notin {Ok, "LockFailure"})
          => (ret.err \in ReloadErrors /\ ret.attempted /\ ret.out = <<>>))

\* get_random_proxy failed on a readable file without a valid entry while
\* the catalog was empty.
C16_Witness ==
    /\ ret.op = "get"
    /\ ret.attempted
    /\ ret.err = "EmptyCatalog"
    /\ Len(proxies) = 0
    /\ ConfiguredFile = Regular(FileInvalid)

(***************************************************************************)
(* C17.  When the catalog holds entries of an earlier successful load, has *)
(* become stale, and the reload fails, get_random_proxy returns the reload *)
(* failure and none of the cached entries; the timestamp is not advanced,  *)
(* so the catalog stays stale and every later get_random_proxy attempts    *)
(* the reload again, until a reload succeeds.                              *)
(***************************************************************************)
\* Entries are cached and more than the interval has passed since they
\* were loaded.
CachedButExpired == proxies # <<>> /\ now - last_updated > UpdateInterval

C17_StaleFailureNotMasked ==
    /\ [][(ret'.op = "get" /\ "manager" \notin poisoned /\ CachedButExpired)
          => (/\ ret'.attempted
              /\ ReloadVerdict # Ok
                 => (/\ ret'.err = ReloadVerdict
                     /\ ret'.out = <<>>
                     /\ last_updated' = last_updated))]_vars
    /\ [][(CachedButExpired /\ ~(ret'.attempted /\ ret'.err \notin ReloadErrors))
          => CachedButExpired']_vars

\* get_random_proxy found the file gone two intervals after the load of
\* the entries it still holds.
C17_Witness ==
    /\ ret.op = "get"
    /\ ret.err = "NotFound"
    /\ ret.attempted
    /\ proxies # <<>>
    /\ now - last_updated > UpdateInterval + UpdateInterval

(***************************************************************************)
(* C18.  A reload that fails for any reason (file missing, read error,     *)
(* zero valid entries) leaves the entry sequence and the last-load         *)
(* timestamp identical to their values before the attempt; the entry       *)
(* sequence is assigned only after the whole file has been parsed and      *)
(* found to contain at least one valid entry.                              *)
(***************************************************************************)
C18_FailedReloadChangesNothing ==
    /\ [][(ret'.attempted /\ ret'.err \in ReloadErrors)
          => (proxies' = proxies /\ last_updated' = last_updated)]_vars
    /\ [][(proxies' # proxies \/ last_updated' # last_updated)
          => (/\ ret'.attempted
              /\ ret'.err \notin ReloadErrors
              /\ ConfiguredFile.readable
              /\ Len(EntriesOf(ConfiguredFile.content)) >= 1
              /\ proxies' = EntriesOf(ConfiguredFile.content)
              /\ last_updated' = now)]_vars

\* The cached entries and their timestamp have survived a reload that
\* could not read the file.
C18_Witness ==
    /\ ret.attempted
    /\ ret.err = "IoFailure"
    /\ CachedButExpired
    /\ ConfiguredFile = UnreadableFile

(***************************************************************************)
(* C19.  set_proxy_file_path does not invalidate the cached catalog: while *)
(* the catalog is non-empty and not stale, get_random_proxy keeps          *)
(* returning entries loaded from the path configured before, and the new   *)
(* path is read only at the next reload, which uses the path configured at *)
(* that moment.                                                            *)
(***************************************************************************)
C19_PathChangeKeepsCache ==
    /\ [][ret'.op = "set_path"
          => (/\ proxies' = proxies
              /\ last_updated' = last_updated
              /\ ret'.reads = 0)]_vars
    /\ [][(ret'.op = "get" /\ "manager" \notin poisoned
           /\ proxies # <<>> /\ ~CachedButExpired)
          => (/\ ret'.reads = 0
              /\ ret'.err = Ok
              /\ ret'.out[1] \in Elements(proxies)
              /\ proxies' = proxies)]_vars
    /\ [][(CallOnCatalog /\ ret'.attempted)
          => (/\ ret'.err = ReloadVerdict
              /\ ret'.reads = (IF disk[proxy_file_path].exists THEN 1 ELSE 0)
              /\ ReloadVerdict = Ok
                 => proxies' = EntriesOf(disk[proxy_file_path].content))]_vars

\* After the path was changed to a file holding another entry,
\* get_random_proxy returned, without reading, an entry of the file at the
\* first path.
C19_Witness ==
    /\ ret.op = "get"
    /\ ret.err = Ok
    /\ ret.reads = 0
    /\ proxy_file_path = AltPath
    /\ disk[AltPath] = Regular(FileAlt)
    /\ disk[DefaultPath] = Regular(FileScenario)
    /\ proxies = <<Alice, Bob>>

(***************************************************************************)
(* C20.  get_random_proxy does not consult the enabled flag: its reload    *)
(* decision and the set of entries it may return are determined by the     *)
(* catalog, the file and the clock, the same whether the flag is true or   *)
(* false; set_proxy_enabled never changes the catalog's entries or         *)
(* timestamp; the flag only affects should_use_proxy.                      *)
(***************************************************************************)
\* What get_random_proxy does in this state, told from the catalog, the
\* file and the clock alone.
SelectionPool == IF Stale THEN EntriesOf(ConfiguredFile.content) ELSE proxies

C20_GetIgnoresEnabledFlag ==
    /\ [][(ret'.op = "get" /\ "manager" \notin poisoned)
          => (/\ ret'.attempted = Stale
              /\ ret'.err = (IF Stale THEN ReloadVerdict ELSE Ok)
              /\ ret'.err = Ok => ret'.out[1] \in Elements(SelectionPool)
              /\ proxy_enabled' = proxy_enabled)]_vars
    /\ \A e \in Elements(<<Alice, Bob>>) :
          []((SelectionPool = <<Alice, Bob>> /\ "manager" \notin poisoned)
             => ENABLED (GetRandomProxy /\ ret'.out = <<e>>))
    /\ [][ret'.op = "set_enabled"
          => (/\ proxies' = proxies
              /\ last_updated' = last_updated
              /\ ret'.reads = 0)]_vars

\* With the proxy function disabled, get_random_proxy reloaded the catalog
\* and returned an entry.
C20_Witness ==
    /\ ~proxy_enabled
    /\ ret.op = "get"
    /\ ret.err = Ok
    /\ ret.attempted
    /\ ret.out[1] \in {Alice, Bob}

====
